---------------------------- MODULE Spec2Model ----------------------------
(***************************************************************************)
(* CameraGrid (src/cameragrid.js, revision `CameraGrid`, lines 466-1007):  *)
(* a grid of camera feeds with a layout solver, a resolution catalog and   *)
(* a selection / scanning state machine driven by keys, clicks, a timer    *)
(* and container resizes.                                                  *)
(*                                                                         *)
(* Numbers.  JavaScript numbers are modelled as exact rationals: a scale   *)
(* is a pair <<num, den>> with den > 0, and Math.floor / Math.ceil of a    *)
(* Math.sqrt are computed on the exact radicand.  Integers (resolutions,   *)
(* cell counts, indices) are TLA+ integers.                                *)
(* On the catalogs, tile counts and container sizes used below, IEEE-754   *)
(* evaluation of the source yields the same shapes and resolutions; where  *)
(* rounding splits an exact tie (e.g. 500 x 250 with 3 tiles of 160 x 120) *)
(* the source compares the rounded doubles.                                *)
(*                                                                         *)
(* The object is the record `this`; every method is an operator from a     *)
(* record to the record after the call.  Besides the fields of the object  *)
(* the record carries the container's size (container_.offsetWidth /       *)
(* offsetHeight), the src of the last image of each cell                   *)
(* (cells_[i].lastChild.firstChild.src) and the side effects of the        *)
(* handler that ran last (image requests, grid rebuilds, style-rule        *)
(* updates), which are what the claims about side effects observe.         *)
(***************************************************************************)
EXTENDS Integers, Sequences, FiniteSets, TLC

VARIABLES this, ev

vars == <<this, ev>>

(***************************************************************************)
(* Bounds of the model.                                                    *)
(***************************************************************************)
MaxTiles == 3
MaxDim == 9
MaxSolverTiles == 6
MaxKeyTiles == 11
MaxScenarioTiles == 5
MaxLoadTiles == 2
MaxSlots == 2
MaxCatalogLen == 3
MaxRes == 2
MaxTarget == 3

(***************************************************************************)
(* JavaScript values.                                                      *)
(***************************************************************************)
null == 0 - 1
undefined == 0 - 2
Number_MAX_VALUE == 2147483647
NoImage == <<>>

(***************************************************************************)
(* Catalogs.                                                               *)
(***************************************************************************)
defaultResolutions_ ==
  << <<160, 120>>, <<240, 180>>, <<320, 240>>, <<480, 360>>,
     <<640, 480>>, <<800, 600>>, <<1024, 768>>, <<1280, 960>> >>

\* Catalogs handed to the constructor in the solver specification: ascending,
\* one aspect ratio each, small enough for containers of a few units.
SmallCatalogs ==
  { << <<4, 3>>, <<8, 6>>, <<12, 9>> >>,
    << <<1, 1>>, <<2, 2>>, <<4, 4>>, <<8, 8>> >>,
    << <<2, 1>>, <<6, 3>> >> }

\* Container sizes (pixels) of the controller specification.
Sizes ==
  { <<700, 500>>, <<1300, 500>>, <<300, 500>>, <<900, 700>>, <<1000, 300>> }

\* The three-entry 4:3 catalog of the worked layout scenario.
ScenarioCatalog == << <<160, 120>>, <<320, 240>>, <<640, 480>> >>

\* Catalogs handed to the constructor: empty, not sorted ascending, of mixed
\* aspect ratios, and well formed.
ConstructCatalogs ==
  { <<>>,
    << <<320, 240>>, <<160, 120>> >>,
    << <<160, 120>>, <<320, 200>> >>,
    ScenarioCatalog }

\* Container sizes of the image-slot specification.
LoadSizes == {<<700, 500>>, <<300, 500>>}

\* Container sizes of the keyboard specification.
KeySizes == {<<150, 100>>, <<100, 150>>}

(***************************************************************************)
(* Exact rationals <<num, den>>, den > 0.                                  *)
(***************************************************************************)
RatLt(a, b) == a[1] * b[2] < b[1] * a[2]
RatEq(a, b) == a[1] * b[2] = b[1] * a[2]

\* Math.floor(Math.sqrt(p / q)) and Math.ceil(Math.sqrt(p / q)), p >= 0, q > 0.
RECURSIVE floorSqrtFrom(_, _, _)
floorSqrtFrom(p, q, k) ==
  IF (k + 1) * (k + 1) * q > p THEN k ELSE floorSqrtFrom(p, q, k + 1)

floorSqrt(p, q) == floorSqrtFrom(p, q, 0)

RECURSIVE ceilSqrtFrom(_, _, _)
ceilSqrtFrom(p, q, k) ==
  IF k * k * q >= p THEN k ELSE ceilSqrtFrom(p, q, k + 1)

ceilSqrt(p, q) == ceilSqrtFrom(p, q, 0)

(***************************************************************************)
(* Sequencing: Then(v, F) is F applied to the value of v, with v evaluated *)
(* once (`var x = v; ... x ... x ...`).                                    *)
(***************************************************************************)
Then(v, F(_)) == CHOOSE r \in {F(x) : x \in {v}} : TRUE

(***************************************************************************)
(* getUrl_: the URL names the camera and spells out width and height, so   *)
(* two URLs are equal exactly when camera, width and height are equal.     *)
(***************************************************************************)
defaultGetUrl_(sourceUrl, width, height) == <<sourceUrl, width, height>>


(***************************************************************************)
(* calculateGrid_: the layout solver.                                      *)
(***************************************************************************)
\* The three candidate shapes [columns, rows], in the order of the source.
\* gridWidth = sqrt(wp / wq) and gridHeight = sqrt(hp / hq).
\* Variant of gridOptions that rounds both ideal dimensions down in the third
\* candidate instead of up.
gridOptions_NoCeilCeil(wp, wq, hp, hq) ==
  << <<ceilSqrt(wp, wq), floorSqrt(hp, hq)>>,
     <<floorSqrt(wp, wq), ceilSqrt(hp, hq)>>,
     <<floorSqrt(wp, wq), floorSqrt(hp, hq)>> >>

gridOptions(wp, wq, hp, hq) ==
  << <<ceilSqrt(wp, wq), floorSqrt(hp, hq)>>,
     <<floorSqrt(wp, wq), ceilSqrt(hp, hq)>>,
     <<ceilSqrt(wp, wq), ceilSqrt(hp, hq)>> >>

\* widthScale and heightScale of a candidate with at least one cell.
widthScale(gridOption, containerWidth, tileScaleWidth) ==
  <<containerWidth, gridOption[1] * tileScaleWidth>>

heightScale(gridOption, containerHeight, tileScaleHeight) ==
  <<containerHeight, gridOption[2] * tileScaleHeight>>

\* Variant of considerOption without the cell-count tie-break: a candidate
\* of equal scale always replaces the one chosen so far.
considerOption_NoCellTieBreak(acc, gridOption, containerWidth, containerHeight, numTiles, tileScaleWidth, tileScaleHeight) ==
  LET numCells == gridOption[1] * gridOption[2] IN
  IF numCells < numTiles THEN acc
  ELSE
    LET ws == widthScale(gridOption, containerWidth, tileScaleWidth)
        hs == heightScale(gridOption, containerHeight, tileScaleHeight)
        scale == IF RatLt(ws, hs) THEN ws ELSE hs
        constraint == IF RatLt(ws, hs) THEN "width" ELSE "height"
    IN  IF RatLt(scale, acc.maxScale) THEN acc
        ELSE [chosenWidth |-> gridOption[1],
              chosenHeight |-> gridOption[2],
              chosenConstraint |-> constraint,
              minCells |-> numCells,
              maxScale |-> scale]

\* Variant of considerOption that keeps the candidate chosen so far when the
\* new one has the same scale and the same number of cells.
considerOption_FirstWinsTie(acc, gridOption, containerWidth, containerHeight, numTiles, tileScaleWidth, tileScaleHeight) ==
  LET numCells == gridOption[1] * gridOption[2] IN
  IF numCells < numTiles THEN acc
  ELSE
    LET ws == widthScale(gridOption, containerWidth, tileScaleWidth)
        hs == heightScale(gridOption, containerHeight, tileScaleHeight)
        scale == IF RatLt(ws, hs) THEN ws ELSE hs
        constraint == IF RatLt(ws, hs) THEN "width" ELSE "height"
    IN  IF RatLt(scale, acc.maxScale) THEN acc
        ELSE IF RatEq(scale, acc.maxScale) /\ numCells >= acc.minCells THEN acc
        ELSE [chosenWidth |-> gridOption[1],
              chosenHeight |-> gridOption[2],
              chosenConstraint |-> constraint,
              minCells |-> numCells,
              maxScale |-> scale]

\* Variant of considerOption that names the constraint the wrong way round.
considerOption_SwapsConstraint(acc, gridOption, containerWidth, containerHeight, numTiles, tileScaleWidth, tileScaleHeight) ==
  LET numCells == gridOption[1] * gridOption[2] IN
  IF numCells < numTiles THEN acc
  ELSE
    LET ws == widthScale(gridOption, containerWidth, tileScaleWidth)
        hs == heightScale(gridOption, containerHeight, tileScaleHeight)
        scale == IF RatLt(ws, hs) THEN ws ELSE hs
        constraint == IF RatLt(ws, hs) THEN "height" ELSE "width"
    IN  IF RatLt(scale, acc.maxScale) THEN acc
        ELSE IF RatEq(scale, acc.maxScale) /\ numCells > acc.minCells THEN acc
        ELSE [chosenWidth |-> gridOption[1],
              chosenHeight |-> gridOption[2],
              chosenConstraint |-> constraint,
              minCells |-> numCells,
              maxScale |-> scale]

\* One iteration of the loop over gridOptions; acc holds the loop's locals.
considerOption(acc, gridOption, containerWidth, containerHeight, numTiles, tileScaleWidth, tileScaleHeight) ==
  LET numCells == gridOption[1] * gridOption[2] IN
  IF numCells < numTiles THEN acc
  ELSE
    LET ws == widthScale(gridOption, containerWidth, tileScaleWidth)
        hs == heightScale(gridOption, containerHeight, tileScaleHeight)
        scale == IF RatLt(ws, hs) THEN ws ELSE hs
        constraint == IF RatLt(ws, hs) THEN "width" ELSE "height"
    IN  IF RatLt(scale, acc.maxScale) THEN acc
        ELSE IF RatEq(scale, acc.maxScale) /\ numCells > acc.minCells THEN acc
        ELSE [chosenWidth |-> gridOption[1],
              chosenHeight |-> gridOption[2],
              chosenConstraint |-> constraint,
              minCells |-> numCells,
              maxScale |-> scale]

calculateGrid_(containerWidth, containerHeight, numTiles, tileScaleWidth, tileScaleHeight) ==
  LET \* scaleFactor = sfp / sfq
      sfp == containerHeight * tileScaleWidth
      sfq == tileScaleHeight * containerWidth
      acc0 == [chosenWidth |-> undefined, chosenHeight |-> undefined,
               chosenConstraint |-> "undefined",
               minCells |-> Number_MAX_VALUE, maxScale |-> <<0, 1>>]
      loop(acc, gridOption) ==
        considerOption(acc, gridOption, containerWidth, containerHeight,
                       numTiles, tileScaleWidth, tileScaleHeight)
  IN  Then(gridOptions(numTiles * sfq, sfp, numTiles * sfp, sfq), LAMBDA opts :
      Then(loop(acc0, opts[1]), LAMBDA acc1 :
      Then(loop(acc1, opts[2]), LAMBDA acc2 :
      Then(loop(acc2, opts[3]), LAMBDA acc3 :
        [gridWidthCells |-> acc3.chosenWidth,
         gridHeightCells |-> acc3.chosenHeight,
         constraint |-> acc3.chosenConstraint,
         containerConstraint |-> IF sfp > sfq THEN "width" ELSE "height",
         \* cellWidthPx = tileScaleWidth * maxScale, cellHeightPx likewise
         cellWidthPx |-> <<tileScaleWidth * acc3.maxScale[1], acc3.maxScale[2]>>,
         cellHeightPx |-> <<tileScaleHeight * acc3.maxScale[1], acc3.maxScale[2]>>]))))

(***************************************************************************)
(* findMinimumResolution_: tileWidth and tileHeight are rationals.         *)
(***************************************************************************)
RECURSIVE findMinimumResolutionFrom(_, _, _, _)
findMinimumResolutionFrom(resolutions, i, tileWidth, tileHeight) ==
  IF i > Len(resolutions)
  THEN [imgWidthPx |-> resolutions[Len(resolutions)][1],
        imgHeightPx |-> resolutions[Len(resolutions)][2]]
  ELSE IF /\ RatLt(<<resolutions[i][1], 1>>, tileWidth)
          /\ RatLt(<<resolutions[i][2], 1>>, tileHeight)
       THEN findMinimumResolutionFrom(resolutions, i + 1, tileWidth, tileHeight)
       ELSE [imgWidthPx |-> resolutions[i][1],
             imgHeightPx |-> resolutions[i][2]]

\* Variant of findMinimumResolution_ that skips an entry smaller than the
\* target in either dimension (instead of in both).
RECURSIVE findCoveringBothFrom(_, _, _, _)
findCoveringBothFrom(resolutions, i, tileWidth, tileHeight) ==
  IF i > Len(resolutions)
  THEN [imgWidthPx |-> resolutions[Len(resolutions)][1],
        imgHeightPx |-> resolutions[Len(resolutions)][2]]
  ELSE IF \/ RatLt(<<resolutions[i][1], 1>>, tileWidth)
          \/ RatLt(<<resolutions[i][2], 1>>, tileHeight)
       THEN findCoveringBothFrom(resolutions, i + 1, tileWidth, tileHeight)
       ELSE [imgWidthPx |-> resolutions[i][1],
             imgHeightPx |-> resolutions[i][2]]

findMinimumResolution_CoverBoth(resolutions, tileWidth, tileHeight) ==
  findCoveringBothFrom(resolutions, 1, tileWidth, tileHeight)

findMinimumResolution_(resolutions, tileWidth, tileHeight) ==
  findMinimumResolutionFrom(resolutions, 1, tileWidth, tileHeight)

(***************************************************************************)
(* findMinimumResolution_ of the first revision in the file                *)
(* (cameraGrid.CameraGrid.prototype.findMinimumResolution_): the last      *)
(* entry is never skipped, and the loop has no fallback after it.  Falling *)
(* out of the loop (empty catalog only) returns undefined.                 *)
(***************************************************************************)
RECURSIVE cameraGrid_findMinimumResolutionFrom(_, _, _, _)
cameraGrid_findMinimumResolutionFrom(resolutions, i, tileWidth, tileHeight) ==
  IF i > Len(resolutions)
  THEN [imgWidthPx |-> undefined, imgHeightPx |-> undefined]
  ELSE IF /\ i + 1 <= Len(resolutions)
          /\ RatLt(<<resolutions[i][1], 1>>, tileWidth)
          /\ RatLt(<<resolutions[i][2], 1>>, tileHeight)
       THEN cameraGrid_findMinimumResolutionFrom(resolutions, i + 1,
                                                 tileWidth, tileHeight)
       ELSE [imgWidthPx |-> resolutions[i][1],
             imgHeightPx |-> resolutions[i][2]]

\* Variant of the first revision without the guard that keeps the last entry.
RECURSIVE cameraGrid_findUnguardedFrom(_, _, _, _)
cameraGrid_findUnguardedFrom(resolutions, i, tileWidth, tileHeight) ==
  IF i > Len(resolutions)
  THEN [imgWidthPx |-> undefined, imgHeightPx |-> undefined]
  ELSE IF /\ RatLt(<<resolutions[i][1], 1>>, tileWidth)
          /\ RatLt(<<resolutions[i][2], 1>>, tileHeight)
       THEN cameraGrid_findUnguardedFrom(resolutions, i + 1,
                                         tileWidth, tileHeight)
       ELSE [imgWidthPx |-> resolutions[i][1],
             imgHeightPx |-> resolutions[i][2]]

cameraGrid_findMinimumResolution_NoLastGuard(resolutions, tileWidth, tileHeight) ==
  cameraGrid_findUnguardedFrom(resolutions, 1, tileWidth, tileHeight)

cameraGrid_findMinimumResolution_(resolutions, tileWidth, tileHeight) ==
  cameraGrid_findMinimumResolutionFrom(resolutions, 1, tileWidth, tileHeight)

(***************************************************************************)
(* Side effects of one handler run: the image requests issued (URLs, in    *)
(* order), the number of grid rebuilds, the style rules rewritten and the  *)
(* number of times disableScanning_ switched scanning off.                 *)
(***************************************************************************)
NoFx == [requests |-> <<>>, gridBuilds |-> 0, ruleUpdates |-> <<>>, stops |-> 0]

Begin(s) == [s EXCEPT !.fx = NoFx]

(***************************************************************************)
(* Images.                                                                 *)
(***************************************************************************)
\* URL buildImage_ asks for: full-screen resolution while scanning or for the
\* selected cell, grid resolution otherwise.
imgUrl(s, index) ==
  IF s.scanning \/ index = s.selected
  THEN defaultGetUrl_(index, s.containerImgWidthPx, s.containerImgHeightPx)
  ELSE defaultGetUrl_(index, s.imgWidthPx, s.imgHeightPx)

\* Variant of buildImage_ without the check against the last image of the
\* cell.
buildImage_AlwaysRequests(s, index) ==
  [s EXCEPT !.src[index] = imgUrl(s, index),
            !.fx.requests = Append(@, imgUrl(s, index))]

\* Source URLs are absolute URLs (README.md), for which the src attribute of
\* an image reads back the string that was assigned to it.
buildImage_(s, index) ==
  IF s.src[index] # NoImage /\ s.src[index] = imgUrl(s, index)
  THEN s
  ELSE [s EXCEPT !.src[index] = imgUrl(s, index),
                 !.fx.requests = Append(@, imgUrl(s, index))]

RECURSIVE buildImagesFrom(_, _)
buildImagesFrom(s, i) ==
  IF i < s.numTiles
  THEN Then(buildImage_(s, i), LAMBDA t : buildImagesFrom(t, i + 1))
  ELSE s

buildImages_(s) == Then(s, LAMBDA t : buildImagesFrom(t, 0))

buildGrid_(s) == [s EXCEPT !.fx.gridBuilds = @ + 1]

setUpscaleRule_(s, constraint, rule) ==
  [s EXCEPT !.rules[rule] =
              IF constraint = "height"
              THEN [minWidth |-> "0", minHeight |-> "100%"]
              ELSE [minWidth |-> "100%", minHeight |-> "0"],
            !.fx.ruleUpdates = Append(@, rule)]

(***************************************************************************)
(* Selection and scanning.                                                 *)
(***************************************************************************)
\* Variant of disableScanning_ that clears the flag without refreshing the
\* images.
disableScanning_NoRefresh(s) ==
  IF s.scanning
  THEN [s EXCEPT !.scanning = FALSE, !.fx.stops = @ + 1]
  ELSE s

disableScanning_(s) ==
  IF s.scanning
  THEN buildImages_([s EXCEPT !.scanning = FALSE, !.fx.stops = @ + 1])
  ELSE s

\* Variant of setSelected_ that never deselects: selecting the selected cell
\* keeps it selected.
setSelected_AlwaysSelects(s, index) ==
  LET old_index == IF s.selected # null THEN s.selected ELSE null
  IN  Then([s EXCEPT !.fullScreen = (@ \ {s.selected}) \cup {index},
                     !.selected = index], LAMBDA s1 :
        IF \/ s1.containerImgWidthPx # s1.imgWidthPx
           \/ s1.containerImgHeightPx # s1.imgHeightPx
        THEN Then(IF old_index # null THEN buildImage_(s1, old_index) ELSE s1,
                  LAMBDA s2 :
                    IF s2.selected # null THEN buildImage_(s2, s2.selected)
                    ELSE s2)
        ELSE s1)

\* Variant of setSelected_ in which selecting the selected cell moves the
\* selection to cell 0 instead of clearing it.
setSelected_ReselectsFirst(s, index) ==
  LET old_index == IF s.selected # null THEN s.selected ELSE null
      new_index == IF s.selected = index THEN 0 ELSE index
  IN  Then([s EXCEPT !.fullScreen = (@ \ {s.selected}) \cup {new_index},
                     !.selected = new_index], LAMBDA s1 :
        IF \/ s1.containerImgWidthPx # s1.imgWidthPx
           \/ s1.containerImgHeightPx # s1.imgHeightPx
        THEN Then(IF old_index # null THEN buildImage_(s1, old_index) ELSE s1,
                  LAMBDA s2 :
                    IF s2.selected # null THEN buildImage_(s2, s2.selected)
                    ELSE s2)
        ELSE s1)

setSelected_(s, index) ==
  LET old_index == IF s.selected = index THEN s.selected
                   ELSE IF s.selected # null THEN s.selected ELSE null
  IN  Then(IF s.selected = index
           THEN [s EXCEPT !.fullScreen = @ \ {s.selected},
                          !.selected = null]
           ELSE [s EXCEPT !.fullScreen = (@ \ {s.selected}) \cup {index},
                          !.selected = index], LAMBDA s1 :
        IF \/ s1.containerImgWidthPx # s1.imgWidthPx
           \/ s1.containerImgHeightPx # s1.imgHeightPx
        THEN Then(IF old_index # null THEN buildImage_(s1, old_index) ELSE s1,
                  LAMBDA s2 :
                    IF s2.selected # null THEN buildImage_(s2, s2.selected)
                    ELSE s2)
        ELSE s1)

setSelectedNoScan_(s, index) ==
  Then(setSelected_(s, index), LAMBDA t : disableScanning_(t))

scanLeft_(s) ==
  setSelected_(s, IF s.selected > 0 THEN s.selected - 1 ELSE s.numTiles - 1)

\* Variant of scanRight_ that does not wrap around after the last cell.
scanRight_NoWrap(s) == setSelected_(s, s.selected + 1)

\* Variant of scanRight_ that stays on the last cell instead of wrapping.
scanRight_StopsAtLast(s) ==
  setSelected_(s, IF s.selected + 1 < s.numTiles THEN s.selected + 1
                  ELSE s.selected)

scanRight_(s) == setSelected_(s, (s.selected + 1) % s.numTiles)

(***************************************************************************)
(* rebuildIfNeeded_: the recompute pass.                                   *)
(***************************************************************************)
\* Variant of rebuildIfNeeded_ that rebuilds the grid without comparing the
\* shape with the cached one.
rebuildIfNeeded_AlwaysBuildsGrid(s) ==
  Then(calculateGrid_(s.offsetWidth, s.offsetHeight, s.numTiles,
                      s.tileScaleWidth, s.tileScaleHeight), LAMBDA grid :
  Then(findMinimumResolution_(s.resolutions, grid.cellWidthPx,
                              grid.cellHeightPx), LAMBDA resolution :
  Then(findMinimumResolution_(s.resolutions, <<s.offsetWidth, 1>>,
                              <<s.offsetHeight, 1>>), LAMBDA containerResolution :
  Then(IF grid.constraint # s.constraint
       THEN setUpscaleRule_([s EXCEPT !.constraint = grid.constraint],
                            grid.constraint, "imageScaleRule")
       ELSE s, LAMBDA s1 :
  Then(IF grid.containerConstraint # s1.containerConstraint
       THEN setUpscaleRule_(
              [s1 EXCEPT !.containerConstraint = grid.containerConstraint],
              grid.containerConstraint, "containerImageScaleRule")
       ELSE s1, LAMBDA s2 :
  Then(IF \/ resolution.imgWidthPx # s2.imgWidthPx
          \/ resolution.imgHeightPx # s2.imgHeightPx
       THEN buildImages_([s2 EXCEPT !.imgWidthPx = resolution.imgWidthPx,
                                    !.imgHeightPx = resolution.imgHeightPx])
       ELSE s2, LAMBDA s3 :
  Then(IF \/ containerResolution.imgWidthPx # s3.containerImgWidthPx
          \/ containerResolution.imgHeightPx # s3.containerImgHeightPx
       THEN Then([s3 EXCEPT
                    !.containerImgWidthPx = containerResolution.imgWidthPx,
                    !.containerImgHeightPx = containerResolution.imgHeightPx],
                 LAMBDA t :
                   IF t.selected # null THEN buildImage_(t, t.selected) ELSE t)
       ELSE s3, LAMBDA s4 :
    buildGrid_([s4 EXCEPT !.gridWidthCells = grid.gridWidthCells,
                          !.gridHeightCells = grid.gridHeightCells]))))))))

\* Variant of rebuildIfNeeded_ that also rebuilds the images when the number
\* of columns changed.
rebuildIfNeeded_ImagesOnShape(s) ==
  Then(calculateGrid_(s.offsetWidth, s.offsetHeight, s.numTiles,
                      s.tileScaleWidth, s.tileScaleHeight), LAMBDA grid :
  Then(findMinimumResolution_(s.resolutions, grid.cellWidthPx,
                              grid.cellHeightPx), LAMBDA resolution :
  Then(findMinimumResolution_(s.resolutions, <<s.offsetWidth, 1>>,
                              <<s.offsetHeight, 1>>), LAMBDA containerResolution :
  Then(IF grid.constraint # s.constraint
       THEN setUpscaleRule_([s EXCEPT !.constraint = grid.constraint],
                            grid.constraint, "imageScaleRule")
       ELSE s, LAMBDA s1 :
  Then(IF grid.containerConstraint # s1.containerConstraint
       THEN setUpscaleRule_(
              [s1 EXCEPT !.containerConstraint = grid.containerConstraint],
              grid.containerConstraint, "containerImageScaleRule")
       ELSE s1, LAMBDA s2 :
  Then(IF \/ resolution.imgWidthPx # s2.imgWidthPx
          \/ resolution.imgHeightPx # s2.imgHeightPx
          \/ grid.gridWidthCells # s2.gridWidthCells
       THEN buildImages_([s2 EXCEPT !.imgWidthPx = resolution.imgWidthPx,
                                    !.imgHeightPx = resolution.imgHeightPx])
       ELSE s2, LAMBDA s3 :
  Then(IF \/ containerResolution.imgWidthPx # s3.containerImgWidthPx
          \/ containerResolution.imgHeightPx # s3.containerImgHeightPx
       THEN Then([s3 EXCEPT
                    !.containerImgWidthPx = containerResolution.imgWidthPx,
                    !.containerImgHeightPx = containerResolution.imgHeightPx],
                 LAMBDA t :
                   IF t.selected # null THEN buildImage_(t, t.selected) ELSE t)
       ELSE s3, LAMBDA s4 :
    IF \/ grid.gridWidthCells # s4.gridWidthCells
       \/ grid.gridHeightCells # s4.gridHeightCells
    THEN buildGrid_([s4 EXCEPT !.gridWidthCells = grid.gridWidthCells,
                               !.gridHeightCells = grid.gridHeightCells])
    ELSE s4)))))))

rebuildIfNeeded_(s) ==
  Then(calculateGrid_(s.offsetWidth, s.offsetHeight, s.numTiles,
                      s.tileScaleWidth, s.tileScaleHeight), LAMBDA grid :
  Then(findMinimumResolution_(s.resolutions, grid.cellWidthPx,
                              grid.cellHeightPx), LAMBDA resolution :
  Then(findMinimumResolution_(s.resolutions, <<s.offsetWidth, 1>>,
                              <<s.offsetHeight, 1>>), LAMBDA containerResolution :
  Then(IF grid.constraint # s.constraint
       THEN setUpscaleRule_([s EXCEPT !.constraint = grid.constraint],
                            grid.constraint, "imageScaleRule")
       ELSE s, LAMBDA s1 :
  Then(IF grid.containerConstraint # s1.containerConstraint
       THEN setUpscaleRule_(
              [s1 EXCEPT !.containerConstraint = grid.containerConstraint],
              grid.containerConstraint, "containerImageScaleRule")
       ELSE s1, LAMBDA s2 :
  Then(IF \/ resolution.imgWidthPx # s2.imgWidthPx
          \/ resolution.imgHeightPx # s2.imgHeightPx
       THEN buildImages_([s2 EXCEPT !.imgWidthPx = resolution.imgWidthPx,
                                    !.imgHeightPx = resolution.imgHeightPx])
       ELSE s2, LAMBDA s3 :
  Then(IF \/ containerResolution.imgWidthPx # s3.containerImgWidthPx
          \/ containerResolution.imgHeightPx # s3.containerImgHeightPx
       THEN Then([s3 EXCEPT
                    !.containerImgWidthPx = containerResolution.imgWidthPx,
                    !.containerImgHeightPx = containerResolution.imgHeightPx],
                 LAMBDA t :
                   IF t.selected # null THEN buildImage_(t, t.selected) ELSE t)
       ELSE s3, LAMBDA s4 :
    IF \/ grid.gridWidthCells # s4.gridWidthCells
       \/ grid.gridHeightCells # s4.gridHeightCells
    THEN buildGrid_([s4 EXCEPT !.gridWidthCells = grid.gridWidthCells,
                               !.gridHeightCells = grid.gridHeightCells])
    ELSE s4)))))))

(***************************************************************************)
(* The constructor: the object after `new CameraGrid(container,            *)
(* sourceUrls, resolutions)` with a container of the given size.           *)
(***************************************************************************)
CameraGrid(offsetWidth, offsetHeight, numTiles, resolutions) ==
  rebuildIfNeeded_(
    [resolutions |-> resolutions,
     numTiles |-> numTiles,
     tileScaleWidth |-> resolutions[1][1],
     tileScaleHeight |-> resolutions[1][2],
     gridWidthCells |-> 0,
     gridHeightCells |-> 0,
     imgWidthPx |-> undefined,
     imgHeightPx |-> undefined,
     constraint |-> "undefined",
     containerImgWidthPx |-> undefined,
     containerImgHeightPx |-> undefined,
     containerConstraint |-> "undefined",
     selected |-> null,
     scanning |-> FALSE,
     offsetWidth |-> offsetWidth,
     offsetHeight |-> offsetHeight,
     src |-> [i \in 0 .. numTiles - 1 |-> NoImage],
     fullScreen |-> {},
     rules |-> [r \in {"imageScaleRule", "containerImageScaleRule"} |->
                  [minWidth |-> "", minHeight |-> ""]],
     fx |-> NoFx])

\* `new CameraGrid(...)` with its exceptions.  resolutions_[0][0] throws a
\* TypeError on an empty catalog ([] is truthy, so the default catalog is not
\* substituted); the object is then left with the fields assigned before the
\* throw, and no listener or timer has been registered.
new_CameraGrid(offsetWidth, offsetHeight, numTiles, resolutions) ==
  IF Len(resolutions) = 0
  THEN [thrown |-> "TypeError", resolutions |-> resolutions,
        numTiles |-> numTiles]
  ELSE CameraGrid(offsetWidth, offsetHeight, numTiles, resolutions)

(***************************************************************************)
(* Event handlers.                                                         *)
(***************************************************************************)
Digits == {"1", "2", "3", "4", "5", "6", "7", "8", "9", "0"}

charCodeAt(character) ==
  CASE character = "0" -> 48 [] character = "1" -> 49 [] character = "2" -> 50
    [] character = "3" -> 51 [] character = "4" -> 52 [] character = "5" -> 53
    [] character = "6" -> 54 [] character = "7" -> 55 [] character = "8" -> 56
    [] character = "9" -> 57 [] character = "s" -> 115 [] character = " " -> 32

digitIndex(character) ==
  LET index == charCodeAt(character) - charCodeAt("1")
  IN  IF index = 0 - 1 THEN 10 ELSE index

\* Variant of onKeyPress_ whose 's' starts the scan without selecting a cell.
onKeyPress_NoSelectOnScan(s, character) ==
  IF character \in Digits
  THEN IF digitIndex(character) < s.numTiles
       THEN setSelectedNoScan_(s, digitIndex(character))
       ELSE s
  ELSE IF character = "s"
  THEN IF s.scanning /\ s.selected # null
       THEN setSelectedNoScan_(s, s.selected)
       ELSE [s EXCEPT !.scanning = TRUE]
  ELSE IF character = " "
  THEN [s EXCEPT !.scanning = ~ @]
  ELSE s

\* Variant of onKeyPress_ whose 's' stops a running scan without clearing the
\* selection.
onKeyPress_StopKeepsSelection(s, character) ==
  IF character \in Digits
  THEN IF digitIndex(character) < s.numTiles
       THEN setSelectedNoScan_(s, digitIndex(character))
       ELSE s
  ELSE IF character = "s"
  THEN IF s.scanning /\ s.selected # null
       THEN disableScanning_(s)
       ELSE IF s.selected = null
            THEN setSelected_([s EXCEPT !.scanning = TRUE], 0)
            ELSE [s EXCEPT !.scanning = TRUE]
  ELSE IF character = " "
  THEN [s EXCEPT !.scanning = ~ @]
  ELSE s

onKeyPress_(s, character) ==
  IF character \in Digits
  THEN IF digitIndex(character) < s.numTiles
       THEN setSelectedNoScan_(s, digitIndex(character))
       ELSE s
  ELSE IF character = "s"
  THEN IF s.scanning /\ s.selected # null
       THEN setSelectedNoScan_(s, s.selected)
       ELSE IF s.selected = null
            THEN setSelected_([s EXCEPT !.scanning = TRUE], 0)
            ELSE [s EXCEPT !.scanning = TRUE]
  ELSE IF character = " "
  THEN [s EXCEPT !.scanning = ~ @]
  ELSE s

\* Variant of onKeyDown_ whose Esc deselects without stopping the scan.
onKeyDown_EscKeepsScanning(s, keyCode) ==
  IF keyCode = 27
  THEN IF s.selected # null THEN setSelected_(s, s.selected) ELSE s
  ELSE IF keyCode = 37
  THEN IF s.selected # null
       THEN Then(scanLeft_(s), LAMBDA t : disableScanning_(t))
       ELSE s
  ELSE IF keyCode = 39
  THEN IF s.selected # null
       THEN Then(scanRight_(s), LAMBDA t : disableScanning_(t))
       ELSE s
  ELSE s

\* Variant of onKeyDown_ whose arrows move the selection without stopping the
\* scan.
onKeyDown_ArrowsKeepScanning(s, keyCode) ==
  IF keyCode = 27
  THEN IF s.selected # null THEN setSelectedNoScan_(s, s.selected) ELSE s
  ELSE IF keyCode = 37
  THEN IF s.selected # null THEN scanLeft_(s) ELSE s
  ELSE IF keyCode = 39
  THEN IF s.selected # null THEN scanRight_(s) ELSE s
  ELSE s

onKeyDown_(s, keyCode) ==
  IF keyCode = 27
  THEN IF s.selected # null THEN setSelectedNoScan_(s, s.selected) ELSE s
  ELSE IF keyCode = 37
  THEN IF s.selected # null
       THEN Then(scanLeft_(s), LAMBDA t : disableScanning_(t))
       ELSE s
  ELSE IF keyCode = 39
  THEN IF s.selected # null
       THEN Then(scanRight_(s), LAMBDA t : disableScanning_(t))
       ELSE s
  ELSE s

\* Variant of onScanTimer_ that selects cell 0 when the scan runs with no cell
\* selected.
onScanTimer_SelectsFirst(s) ==
  IF ~ s.scanning THEN s
  ELSE IF s.selected = null THEN setSelected_(s, 0)
  ELSE scanRight_(s)

onScanTimer_(s) ==
  IF ~ s.scanning \/ s.selected = null THEN s ELSE scanRight_(s)

(***************************************************************************)
(* The controller as a state machine.  ev names the event handled last,    *)
(* the selection and scanning flag it found, for a resize whether the      *)
(* container kept its size, and whether it undoes the event before it.     *)
(***************************************************************************)
\* How the event being handled continues the one handled before it: a second
\* click on the same cell, or a Left arrow straight after a Right arrow.
EventPair(type, arg) ==
  IF type = "click" /\ ev.type = "click" /\ ev.arg = arg
  THEN "click-click"
  ELSE IF type = "keydown" /\ ev.type = "keydown" /\ arg = 37 /\ ev.arg = 39
  THEN "right-left"
  ELSE "none"

\* origin is the selection the first event of such a pair found.
Event(type, arg) ==
  [type |-> type, arg |-> arg,
   selected |-> this.selected, scanning |-> this.scanning,
   sameSize |-> IF type = "resize"
                THEN arg = <<this.offsetWidth, this.offsetHeight>>
                ELSE FALSE,
   pair |-> EventPair(type, arg),
   origin |-> IF EventPair(type, arg) = "none" THEN null ELSE ev.selected]

ConstructEvent ==
  [type |-> "construct", arg |-> null, selected |-> null,
   scanning |-> FALSE, sameSize |-> FALSE, pair |-> "none", origin |-> null]

Init ==
  /\ \E n \in 1 .. MaxTiles, size \in Sizes :
       this = CameraGrid(size[1], size[2], n, defaultResolutions_)
  /\ ev = ConstructEvent

\* A click on the image container of cell index.  The full-screen cell's
\* image container is stacked over the whole container (z-index: 1), so
\* while a cell is selected only that cell receives clicks.
Click ==
  \E index \in 0 .. this.numTiles - 1 :
    /\ this.selected = null \/ this.selected = index
    /\ this' = setSelected_(Begin(this), index)
    /\ ev' = Event("click", index)

KeyPressDigit ==
  \E character \in Digits :
    /\ this' = onKeyPress_(Begin(this), character)
    /\ ev' = Event("keypress", character)

KeyPressS ==
  /\ this' = onKeyPress_(Begin(this), "s")
  /\ ev' = Event("keypress", "s")

KeyPressSpace ==
  /\ this' = onKeyPress_(Begin(this), " ")
  /\ ev' = Event("keypress", " ")

KeyDownEsc ==
  /\ this' = onKeyDown_(Begin(this), 27)
  /\ ev' = Event("keydown", 27)

KeyDownLeft ==
  /\ this' = onKeyDown_(Begin(this), 37)
  /\ ev' = Event("keydown", 37)

KeyDownRight ==
  /\ this' = onKeyDown_(Begin(this), 39)
  /\ ev' = Event("keydown", 39)

ScanTimer ==
  /\ this' = onScanTimer_(Begin(this))
  /\ ev' = Event("timer", null)

\* A window resize: the container takes a size (possibly the one it has) and
\* the recompute pass runs.
Resize ==
  \E size \in Sizes :
    /\ this' = rebuildIfNeeded_([Begin(this) EXCEPT !.offsetWidth = size[1],
                                                    !.offsetHeight = size[2]])
    /\ ev' = Event("resize", size)

Next ==
  \/ Click
  \/ KeyPressDigit
  \/ KeyPressS
  \/ KeyPressSpace
  \/ KeyDownEsc
  \/ KeyDownLeft
  \/ KeyDownRight
  \/ ScanTimer
  \/ Resize

Spec == Init /\ [][Next]_vars

(***************************************************************************)
(* The layout solver and the catalog on their own: the controller is       *)
(* constructed over a small catalog and its container is resized through   *)
(* every size of up to MaxDim x MaxDim units.                              *)
(***************************************************************************)
SolverInit ==
  /\ \E n \in 1 .. MaxSolverTiles, w \in 1 .. MaxDim, h \in 1 .. MaxDim,
        resolutions \in SmallCatalogs :
       this = CameraGrid(w, h, n, resolutions)
  /\ ev = ConstructEvent

SolverResize ==
  \E w \in 1 .. MaxDim, h \in 1 .. MaxDim :
    /\ this' = rebuildIfNeeded_([Begin(this) EXCEPT !.offsetWidth = w,
                                                    !.offsetHeight = h])
    /\ ev' = Event("resize", <<w, h>>)

SolverNext == SolverResize

SolverSpec == SolverInit /\ [][SolverNext]_vars

(***************************************************************************)
(* The keyboard on many cells: up to MaxKeyTiles cells in a container so   *)
(* small that every cell, in the grid or full screen, is served by the     *)
(* catalog's first resolution; only selection and scanning vary.           *)
(***************************************************************************)
KeyInit ==
  /\ \E n \in 1 .. MaxKeyTiles, size \in KeySizes :
       this = CameraGrid(size[1], size[2], n, defaultResolutions_)
  /\ ev = ConstructEvent

KeyResize ==
  \E size \in KeySizes :
    /\ this' = rebuildIfNeeded_([Begin(this) EXCEPT !.offsetWidth = size[1],
                                                    !.offsetHeight = size[2]])
    /\ ev' = Event("resize", size)

KeyNext ==
  \/ Click
  \/ KeyPressDigit
  \/ KeyPressS
  \/ KeyPressSpace
  \/ KeyDownEsc
  \/ KeyDownLeft
  \/ KeyDownRight
  \/ ScanTimer
  \/ KeyResize

KeySpec == KeyInit /\ [][KeyNext]_vars

(***************************************************************************)
(* The layout scenario: the controller over ScenarioCatalog with up to     *)
(* MaxScenarioTiles tiles, resized through Sizes.                          *)
(***************************************************************************)
ScenarioInit ==
  /\ \E n \in 1 .. MaxScenarioTiles, size \in Sizes :
       this = CameraGrid(size[1], size[2], n, ScenarioCatalog)
  /\ ev = ConstructEvent

ScenarioResize ==
  \E size \in Sizes :
    /\ this' = rebuildIfNeeded_([Begin(this) EXCEPT !.offsetWidth = size[1],
                                                    !.offsetHeight = size[2]])
    /\ ev' = Event("resize", size)

ScenarioNext == ScenarioResize

ScenarioSpec == ScenarioInit /\ [][ScenarioNext]_vars

(***************************************************************************)
(* Construction over well-formed and ill-formed catalogs, followed by      *)
(* resizes of the controllers that were constructed.                       *)
(***************************************************************************)
ConstructInit ==
  /\ \E n \in 1 .. MaxScenarioTiles, size \in Sizes,
        resolutions \in ConstructCatalogs :
       this = new_CameraGrid(size[1], size[2], n, resolutions)
  /\ ev = ConstructEvent

ConstructResize ==
  /\ "thrown" \notin DOMAIN this
  /\ \E size \in Sizes :
       /\ this' = rebuildIfNeeded_([Begin(this) EXCEPT
                                      !.offsetWidth = size[1],
                                      !.offsetHeight = size[2]])
       /\ ev' = Event("resize", size)

ConstructNext == ConstructResize

ConstructSpec == ConstructInit /\ [][ConstructNext]_vars

(***************************************************************************)
(* The image slots of the cells.  In LoadSpec the object carries a field   *)
(* cells: cells[i] is the sequence of image containers attached to cell i, *)
(* oldest first, each with the src of its image, whether its 'load' event  *)
(* was handled, and (a history flag) whether it is the container buildImage_*)
(* created last for the cell.  A handler's fx.requests is the log of the   *)
(* containers it appended, in order.                                       *)
(***************************************************************************)
\* cell.appendChild(imgContainer) for the image of url.
appendChild(cells, url) ==
  [cells EXCEPT ![url[1]] =
     Append([k \in 1 .. Len(@) |-> [@[k] EXCEPT !.latest = FALSE]],
            [src |-> url, loaded |-> FALSE, latest |-> TRUE])]

RECURSIVE appendChildren(_, _, _)
appendChildren(cells, requests, k) ==
  IF k > Len(requests) THEN cells
  ELSE appendChildren(appendChild(cells, requests[k]), requests, k + 1)

\* The cells after the handler that produced s ran on them.
Attach(cells, s) ==
  [cells |-> appendChildren(cells, s.fx.requests, 1)] @@ s

\* Variant of deletePreviousSiblings_ that removes every sibling of the
\* element, the later ones included.
deletePreviousSiblings_AllSiblings(cell, k) ==
  << [cell[k] EXCEPT !.loaded = TRUE] >>

\* The 'load' listener of the container at position k of a cell:
\* deletePreviousSiblings_(imgContainer).
deletePreviousSiblings_(cell, k) ==
  [j \in 1 .. Len(cell) - k + 1 |->
     IF j = 1 THEN [cell[k] EXCEPT !.loaded = TRUE] ELSE cell[k + j - 1]]

Controller(s) == [f \in DOMAIN s \ {"cells"} |-> s[f]]

\* No cell holds more than MaxSlots containers (images load before more are
\* requested).
WithinSlots(cells) == \A i \in DOMAIN cells : Len(cells[i]) <= MaxSlots

LoadInit ==
  /\ \E n \in 1 .. MaxLoadTiles, size \in LoadSizes :
       this = Attach([i \in 0 .. n - 1 |-> <<>>],
                     CameraGrid(size[1], size[2], n, defaultResolutions_))
  /\ ev = ConstructEvent

\* The handler of an input event ran and its containers were appended.
Handled(s) ==
  /\ WithinSlots(Attach(this.cells, s).cells)
  /\ this' = Attach(this.cells, s)

LoadClick ==
  \E index \in 0 .. this.numTiles - 1 :
    /\ this.selected = null \/ this.selected = index
    /\ Handled(setSelected_(Begin(Controller(this)), index))
    /\ ev' = Event("click", index)

LoadKeyPressS ==
  /\ Handled(onKeyPress_(Begin(Controller(this)), "s"))
  /\ ev' = Event("keypress", "s")

LoadKeyDownEsc ==
  /\ Handled(onKeyDown_(Begin(Controller(this)), 27))
  /\ ev' = Event("keydown", 27)

LoadScanTimer ==
  /\ Handled(onScanTimer_(Begin(Controller(this))))
  /\ ev' = Event("timer", null)

LoadResize ==
  \E size \in LoadSizes :
    /\ Handled(rebuildIfNeeded_([Begin(Controller(this)) EXCEPT
                                   !.offsetWidth = size[1],
                                   !.offsetHeight = size[2]]))
    /\ ev' = Event("resize", size)

\* The image of the container at position k of cell index finished loading.
\* (A container that was already removed has no siblings left: its 'load'
\* changes nothing.)
ImageLoad ==
  \E index \in 0 .. this.numTiles - 1 :
    \E k \in 1 .. Len(this.cells[index]) :
      /\ ~ this.cells[index][k].loaded
      /\ this' = [Begin(this) EXCEPT
                    !.cells[index] = deletePreviousSiblings_(@, k)]
      /\ ev' = Event("load", <<index, k>>)

LoadNext ==
  \/ LoadClick
  \/ LoadKeyPressS
  \/ LoadKeyDownEsc
  \/ LoadScanTimer
  \/ LoadResize
  \/ ImageLoad

LoadSpec == LoadInit /\ [][LoadNext]_vars

(***************************************************************************)
(* A running scan left alone: a tile was selected with its digit key and   *)
(* 's' started the scan; from then on only the interval timer fires.       *)
(* setInterval keeps firing, hence the fairness condition.                 *)
(***************************************************************************)
ScanInit ==
  \E n \in 2 .. MaxKeyTiles, size \in KeySizes, index \in 0 .. MaxKeyTiles - 1 :
    /\ index < n
    /\ this = onKeyPress_(
                Begin(setSelectedNoScan_(
                        Begin(CameraGrid(size[1], size[2], n,
                                         defaultResolutions_)), index)), "s")
    /\ ev = [type |-> "keypress", arg |-> "s", selected |-> index,
             scanning |-> FALSE, sameSize |-> FALSE, pair |-> "none",
             origin |-> null]

ScanNext == ScanTimer

ScanSpec == ScanInit /\ [][ScanNext]_vars /\ WF_vars(ScanTimer)

(***************************************************************************)
(* The two revisions of findMinimumResolution_ side by side: an object     *)
(* holding an arbitrary non-empty catalog of up to MaxCatalogLen entries   *)
(* (sorted or not, of one aspect ratio or not), asked for targets of up to *)
(* MaxTarget x MaxTarget; first and second hold what the first and the     *)
(* second revision return.                                                 *)
(***************************************************************************)
CatalogEntries == (1 .. MaxRes) \X (1 .. MaxRes)

AllCatalogs ==
  UNION {[1 .. n -> CatalogEntries] : n \in 1 .. MaxCatalogLen}

Asked(resolutions, tileWidth, tileHeight) ==
  [resolutions |-> resolutions,
   tileWidth |-> tileWidth,
   tileHeight |-> tileHeight,
   first |-> cameraGrid_findMinimumResolution_(
               resolutions, <<tileWidth, 1>>, <<tileHeight, 1>>),
   second |-> findMinimumResolution_(
                resolutions, <<tileWidth, 1>>, <<tileHeight, 1>>)]

CatalogInit ==
  /\ \E resolutions \in AllCatalogs :
       \E tileWidth \in 0 .. MaxTarget, tileHeight \in 0 .. MaxTarget :
         this = Asked(resolutions, tileWidth, tileHeight)
  /\ ev = ConstructEvent

FindMinimumResolution ==
  /\ \E tileWidth \in 0 .. MaxTarget, tileHeight \in 0 .. MaxTarget :
       this' = Asked(this.resolutions, tileWidth, tileHeight)
  /\ ev' = [ConstructEvent EXCEPT !.type = "find"]

CatalogNext == FindMinimumResolution

CatalogSpec == CatalogInit /\ [][CatalogNext]_vars

(***************************************************************************)
(* Vocabulary of the properties.                                           *)
(***************************************************************************)
\* min(widthScale, heightScale) of a shape <<columns, rows>> in the current
\* container.
ShapeScale(shape) ==
  LET ws == <<this.offsetWidth, shape[1] * this.tileScaleWidth>>
      hs == <<this.offsetHeight, shape[2] * this.tileScaleHeight>>
  IN  IF RatLt(ws, hs) THEN ws ELSE hs

ChosenShape == <<this.gridWidthCells, this.gridHeightCells>>

Seats(shape) ==
  shape[1] >= 1 /\ shape[2] >= 1 /\ shape[1] * shape[2] >= this.numTiles

\* The candidates the solver generates for the current container.
Candidates ==
  LET sfp == this.offsetHeight * this.tileScaleWidth
      sfq == this.tileScaleHeight * this.offsetWidth
      o == gridOptions(this.numTiles * sfq, sfp, this.numTiles * sfp, sfq)
  IN  {o[1], o[2], o[3]}

FeasibleCandidates == {o \in Candidates : Seats(o)}

GridUrl(i) == <<i, this.imgWidthPx, this.imgHeightPx>>
FullScreenUrl(i) == <<i, this.containerImgWidthPx, this.containerImgHeightPx>>
Tiles == 0 .. this.numTiles - 1

\* The fields of the object, without the side-effect log of the last handler.
State(s) == [s EXCEPT !.fx = NoFx]

\* A step that toggles the selection on index and keeps the scanning flag.
Toggled(index) ==
  /\ this'.selected = (IF this.selected = index THEN null ELSE index)
  /\ this'.fullScreen = (IF this.selected = index THEN {} ELSE {index})
  /\ this'.scanning = this.scanning

(***************************************************************************)
(* C4: for every numTiles >= 1 and positive container size, the chosen     *)
(* shape's scale is the maximum over ALL shapes (cols, rows) with          *)
(* cols, rows >= 1 and cols * rows >= numTiles.  (More columns or rows     *)
(* than tiles never helps, so shapes up to numTiles x numTiles decide.)    *)
(***************************************************************************)
C4_GloballyOptimal ==
  \A cols \in 1 .. this.numTiles, rows \in 1 .. this.numTiles :
    Seats(<<cols, rows>>) =>
      ~ RatLt(ShapeScale(ChosenShape), ShapeScale(<<cols, rows>>))

(***************************************************************************)
(* C6: the solver returns a defined shape with columns >= 1, rows >= 1     *)
(* and columns * rows >= numTiles.                                         *)
(***************************************************************************)
C6_ShapeSeatsAllTiles ==
  /\ this.gridWidthCells >= 1
  /\ this.gridHeightCells >= 1
  /\ this.gridWidthCells * this.gridHeightCells >= this.numTiles

\* After a resize, only the (ceil, ceil) candidate seats all tiles.
C6_Witness ==
  /\ ev.type = "resize"
  /\ Cardinality(FeasibleCandidates) = 1
  /\ Cardinality(Candidates) = 3
  /\ this.numTiles >= 2

CoveringBoth(tileWidth, tileHeight) ==
  {i \in 1 .. Len(this.resolutions) :
     /\ ~ RatLt(<<this.resolutions[i][1], 1>>, tileWidth)
     /\ ~ RatLt(<<this.resolutions[i][2], 1>>, tileHeight)}

ReachingOne(tileWidth, tileHeight) ==
  {i \in 1 .. Len(this.resolutions) :
     \/ ~ RatLt(<<this.resolutions[i][1], 1>>, tileWidth)
     \/ ~ RatLt(<<this.resolutions[i][2], 1>>, tileHeight)}

\* <<width, height>> is the first entry of the set fit, or the largest entry
\* of the catalog when fit is empty.
FirstOrLargest(width, height, fit) ==
  IF fit = {}
  THEN <<width, height>> = this.resolutions[Len(this.resolutions)]
  ELSE \E i \in fit : /\ <<width, height>> = this.resolutions[i]
                      /\ \A j \in fit : i <= j

ContainerBoxWidth == <<this.offsetWidth, 1>>
ContainerBoxHeight == <<this.offsetHeight, 1>>
CellBoxWidth ==
  <<this.tileScaleWidth * ShapeScale(ChosenShape)[1], ShapeScale(ChosenShape)[2]>>
CellBoxHeight ==
  <<this.tileScaleHeight * ShapeScale(ChosenShape)[1], ShapeScale(ChosenShape)[2]>>

\* C8 as stated: the full-screen resolution (looked up for the raw container
\* box) and the grid resolution (looked up for the cell box) are each the
\* first catalog entry with width >= w AND height >= h, else the largest.
C8_FirstCoveringBoth ==
  /\ FirstOrLargest(this.containerImgWidthPx, this.containerImgHeightPx,
                    CoveringBoth(ContainerBoxWidth, ContainerBoxHeight))
  /\ FirstOrLargest(this.imgWidthPx, this.imgHeightPx,
                    CoveringBoth(CellBoxWidth, CellBoxHeight))

\* C8 amended: each is the first catalog entry with width >= w OR
\* height >= h, else the largest entry.
C8_FirstReachingOne ==
  /\ FirstOrLargest(this.containerImgWidthPx, this.containerImgHeightPx,
                    ReachingOne(ContainerBoxWidth, ContainerBoxHeight))
  /\ FirstOrLargest(this.imgWidthPx, this.imgHeightPx,
                    ReachingOne(CellBoxWidth, CellBoxHeight))

\* After a resize to a box of another aspect ratio the two readings pick
\* different entries, and some entry covers the box in both dimensions.
C8_Witness ==
  /\ ev.type = "resize"
  /\ CoveringBoth(ContainerBoxWidth, ContainerBoxHeight) # {}
  /\ ~ FirstOrLargest(this.containerImgWidthPx, this.containerImgHeightPx,
                      CoveringBoth(ContainerBoxWidth, ContainerBoxHeight))

(***************************************************************************)
(* C1: whenever scanning is true, the most recently requested image of     *)
(* every tile is at the current full-screen resolution.                    *)
(***************************************************************************)
C1_ScanningAllFullScreen ==
  this.scanning => \A i \in Tiles : this.src[i] = FullScreenUrl(i)

(***************************************************************************)
(* C2: setSelected_(i) alone (a click on tile i, or the timer's step to    *)
(* tile i) toggles: selecting the selected tile leaves no tile selected,   *)
(* otherwise i becomes the selected tile and the only full-screen cell;    *)
(* the scanning flag is unchanged.                                         *)
(***************************************************************************)
C2_SelectTileToggles ==
  [][/\ ev'.type = "click" => Toggled(ev'.arg)
     /\ (ev'.type = "timer" /\ this.scanning /\ this.selected # null) =>
          Toggled((this.selected + 1) % this.numTiles)]_vars

\* The timer's setSelected_ moved the selection from one tile to another.
C2_Witness ==
  /\ ev.type = "timer"
  /\ ev.selected # null
  /\ this.selected # null
  /\ this.selected # ev.selected
  /\ this.fullScreen = {this.selected}

(***************************************************************************)
(* C3: a timer tick changes nothing unless scanning is true and a tile is  *)
(* selected; then the selected tile becomes (s + 1) mod numTiles, for      *)
(* every numTiles >= 1.                                                    *)
(***************************************************************************)
C3_TimerAdvances ==
  [][ev'.type = "timer" =>
       IF this.scanning /\ this.selected # null
       THEN this'.selected = (this.selected + 1) % this.numTiles
       ELSE State(this') = State(this) /\ this'.fx = NoFx]_vars

(***************************************************************************)
(* C5: a recompute pass with the container size unchanged issues no image  *)
(* request, no grid rebuild and no style-rule update and leaves every      *)
(* field of the object unchanged.                                          *)
(***************************************************************************)
C5_RedundantPassIsNoOp ==
  [][(ev'.type = "resize" /\ ev'.sameSize) =>
       /\ this'.fx.requests = <<>>
       /\ this'.fx.gridBuilds = 0
       /\ this'.fx.ruleUpdates = <<>>
       /\ State(this') = State(this)]_vars

\* A redundant pass ran while a tile was selected and scanning was on.
C5_Witness ==
  /\ ev.type = "resize"
  /\ ev.sameSize
  /\ ev.scanning
  /\ ev.selected # null
  /\ this.imgWidthPx # this.containerImgWidthPx

(***************************************************************************)
(* C9: when a handler's disableScanning_ switched scanning off, at the end *)
(* of the handler scanning is false and every tile other than the selected *)
(* one has its last image request at the grid resolution.                  *)
(***************************************************************************)
C9_StopRevertsToGrid ==
  this.fx.stops > 0 =>
    /\ ~ this.scanning
    /\ \A i \in Tiles : i # this.selected => this.src[i] = GridUrl(i)

\* Scanning was stopped and some unselected tile was re-requested at a grid
\* resolution that differs from the full-screen one.
C9_Witness ==
  /\ this.fx.stops > 0
  /\ ev.scanning
  /\ this.imgWidthPx # this.containerImgWidthPx
  /\ \E i \in Tiles :
       /\ i # this.selected
       /\ \E k \in 1 .. Len(this.fx.requests) : this.fx.requests[k] = GridUrl(i)

(***************************************************************************)
(* C10: 's' pressed in a state other than (scanning and a tile selected)   *)
(* sets scanning; tile 0 becomes selected if none was, and a selection     *)
(* that existed is unchanged.                                              *)
(***************************************************************************)
C10_StartScanning ==
  [][(/\ ev'.type = "keypress"
      /\ ev'.arg = "s"
      /\ ~ (this.scanning /\ this.selected # null)) =>
       /\ this'.scanning
       /\ this'.selected = (IF this.selected = null THEN 0 ELSE this.selected)]_vars

\* 's' started a scan from the grid: tile 0 got selected.
C10_Witness ==
  /\ ev.type = "keypress"
  /\ ev.arg = "s"
  /\ ev.selected = null
  /\ ~ ev.scanning
  /\ this.scanning
  /\ this.selected = 0
  /\ this.numTiles >= 2

(***************************************************************************)
(* C11: Escape pressed while a tile is selected leaves no tile selected    *)
(* and scanning off; Escape pressed while no tile is selected changes      *)
(* neither the selection nor the scanning flag (nor any other field) and   *)
(* requests no image.                                                      *)
(***************************************************************************)
C11_EscapeReturnsToGrid ==
  [][(ev'.type = "keydown" /\ ev'.arg = 27) =>
       IF this.selected # null
       THEN this'.selected = null /\ ~ this'.scanning
       ELSE /\ this'.selected = null
            /\ this'.scanning = this.scanning
            /\ State(this') = State(this)
            /\ this'.fx.requests = <<>>]_vars

\* Escape was pressed while a tile was selected and the scan was running.
C11_Witness ==
  /\ ev.type = "keydown"
  /\ ev.arg = 27
  /\ ev.selected # null
  /\ ev.scanning
  /\ this.selected = null
  /\ ~ this.scanning

(***************************************************************************)
(* C12: for numTiles in {1, 2, 5}, a Right arrow followed by a Left arrow, *)
(* pressed while a tile is selected, leaves the tile selected that was     *)
(* selected before the Right arrow.                                        *)
(***************************************************************************)
C12_RightThenLeftRestores ==
  (/\ ev.pair = "right-left"
   /\ ev.origin # null
   /\ this.numTiles \in {1, 2, 5}) => this.selected = ev.origin

(***************************************************************************)
(* C13: after a Left or Right arrow handled while a tile is selected,      *)
(* scanning is off; an arrow pressed while no tile is selected changes     *)
(* neither the selection nor the scanning flag.                            *)
(***************************************************************************)
C13_ArrowsStopScanning ==
  [][(ev'.type = "keydown" /\ ev'.arg \in {37, 39}) =>
       IF this.selected # null
       THEN ~ this'.scanning
       ELSE this'.selected = null /\ this'.scanning = this.scanning]_vars

\* An arrow was pressed during a scan and moved the selection to another tile.
C13_Witness ==
  /\ ev.type = "keydown"
  /\ ev.arg \in {37, 39}
  /\ ev.selected # null
  /\ ev.scanning
  /\ this.selected # null
  /\ this.selected # ev.selected
  /\ ~ this.scanning

(***************************************************************************)
(* C14: two successive clicks on the same tile i, starting with no tile    *)
(* selected or with i selected, restore the selection they started from.   *)
(***************************************************************************)
C14_TwoClicksRestore ==
  (/\ ev.pair = "click-click"
   /\ (ev.origin = null \/ ev.origin = ev.arg)) => this.selected = ev.origin

\* Tile i was selected, then clicked twice, and is selected again.
C14_Witness ==
  /\ ev.pair = "click-click"
  /\ ev.origin = ev.arg
  /\ ev.selected = null
  /\ this.selected = ev.arg
  /\ this.numTiles >= 2

(***************************************************************************)
(* C15: in every reachable state the selected index is absent or lies in   *)
(* [0, numTiles).                                                          *)
(***************************************************************************)
C15_SelectedInRange ==
  this.selected = null \/ this.selected \in 0 .. this.numTiles - 1

\* The timer wrapped the selection from the last tile around to tile 0.
C15_Witness ==
  /\ ev.type = "timer"
  /\ ev.selected = this.numTiles - 1
  /\ this.selected = 0
  /\ this.numTiles >= 2

(***************************************************************************)
(* C16 (as claimed): a timer tick received while no tile is selected and   *)
(* scanning is on selects a tile.                                          *)
(***************************************************************************)
C16_TickLeavesGridScanning ==
  [][(ev'.type = "timer" /\ this.selected = null /\ this.scanning) =>
       this'.selected # null]_vars

(***************************************************************************)
(* C16 (amended): a timer tick received while no tile is selected and      *)
(* scanning is on changes nothing: no tile gets selected, scanning stays   *)
(* on and no image is requested.                                           *)
(***************************************************************************)
C16_TickKeepsGridScanning ==
  [][(ev'.type = "timer" /\ this.selected = null /\ this.scanning) =>
       /\ this'.selected = null
       /\ this'.scanning
       /\ State(this') = State(this)
       /\ this'.fx.requests = <<>>]_vars

\* A tick arrived with the scan on and no tile selected, and left it so.
C16_Witness ==
  /\ ev.type = "timer"
  /\ ev.selected = null
  /\ ev.scanning
  /\ this.selected = null
  /\ this.scanning
  /\ this.numTiles >= 2

\* The requests of tile i among the first n requests of the handler that ran
\* last, as positions in this.fx.requests.
RequestsOf(s, i, n) == {k \in 1 .. n : s.fx.requests[k][1] = i}

Last(S) == CHOOSE k \in S : \A j \in S : j <= k

(***************************************************************************)
(* C18: every image request a handler issues for a tile has a URL that     *)
(* differs from the tile's most recent request before it (an earlier       *)
(* request of the same handler, or the tile's last image when the handler  *)
(* began); a tile's last image is always its most recent request.          *)
(***************************************************************************)
C18_NoRepeatedRequest ==
  [][/\ \A k \in 1 .. Len(this'.fx.requests) :
          LET url == this'.fx.requests[k]
              earlier == RequestsOf(this', url[1], k - 1)
          IN  IF earlier = {}
              THEN url # this.src[url[1]]
              ELSE url # this'.fx.requests[Last(earlier)]
      /\ \A i \in 0 .. this.numTiles - 1 :
          LET all == RequestsOf(this', i, Len(this'.fx.requests))
          IN  this'.src[i] = IF all = {} THEN this.src[i]
                             ELSE this'.fx.requests[Last(all)]]_vars

\* Stopping the scan rebuilt the images while grid and full-screen
\* resolutions differ, and some tile's request was skipped.
C18_Witness ==
  /\ this.fx.stops > 0
  /\ this.imgWidthPx # this.containerImgWidthPx
  /\ this.fx.requests # <<>>
  /\ \E i \in Tiles : RequestsOf(this, i, Len(this.fx.requests)) = {}

(***************************************************************************)
(* C19: in a recompute pass images are requested only if the grid          *)
(* resolution or the full-screen resolution changed, the grid is rebuilt   *)
(* only if the number of columns or rows changed, and an upscale rule is   *)
(* rewritten only if its constraint changed.                               *)
(***************************************************************************)
C19_EffectsOnlyOnChange ==
  [][ev'.type = "resize" =>
       /\ this'.fx.requests # <<>> =>
            \/ this'.imgWidthPx # this.imgWidthPx
            \/ this'.imgHeightPx # this.imgHeightPx
            \/ this'.containerImgWidthPx # this.containerImgWidthPx
            \/ this'.containerImgHeightPx # this.containerImgHeightPx
       /\ this'.fx.gridBuilds > 0 =>
            \/ this'.gridWidthCells # this.gridWidthCells
            \/ this'.gridHeightCells # this.gridHeightCells
       /\ \A k \in 1 .. Len(this'.fx.ruleUpdates) :
            IF this'.fx.ruleUpdates[k] = "imageScaleRule"
            THEN this'.constraint # this.constraint
            ELSE this'.containerConstraint # this.containerConstraint]_vars

\* A pass changed the shape of the grid only: the grid was rebuilt and no
\* image was requested.
C19_Witness ==
  /\ ev.type = "resize"
  /\ ~ ev.sameSize
  /\ this.fx.gridBuilds = 1
  /\ this.fx.requests = <<>>

\* The tile index a digit key addresses according to the key map "digits
\* 1-0 select tile index 0-9".
AddressedIndex(character) ==
  IF character = "0" THEN 9 ELSE charCodeAt(character) - charCodeAt("1")

(***************************************************************************)
(* C17: a digit key acts on the tile at its position, '1'..'9' on tiles    *)
(* 0..8 and '0' on tile 9 (selecting it, or deselecting it when it is the  *)
(* selected tile); a digit whose tile index is >= numTiles changes no      *)
(* state.                                                                  *)
(***************************************************************************)
C17_DigitsAddressTiles ==
  [][(ev'.type = "keypress" /\ ev'.arg \in Digits) =>
       IF AddressedIndex(ev'.arg) < this.numTiles
       THEN this'.selected = (IF this.selected = AddressedIndex(ev'.arg)
                              THEN null ELSE AddressedIndex(ev'.arg))
       ELSE State(this') = State(this) /\ this'.fx.requests = <<>>]_vars

\* The candidates the solver generates for the current container, in the
\* order of generation.
GeneratedOptions ==
  LET sfp == this.offsetHeight * this.tileScaleWidth
      sfq == this.tileScaleHeight * this.offsetWidth
  IN  gridOptions(this.numTiles * sfq, sfp, this.numTiles * sfp, sfq)

\* Candidates i < j are distinct, seat all tiles, and tie on scale and on
\* the number of cells.
TiedPair(i, j) ==
  LET a == GeneratedOptions[i]
      b == GeneratedOptions[j]
  IN  /\ i < j
      /\ a # b
      /\ Seats(a)
      /\ Seats(b)
      /\ RatEq(ShapeScale(a), ShapeScale(b))
      /\ a[1] * a[2] = b[1] * b[2]

Scenario ==
  /\ this.resolutions = ScenarioCatalog
  /\ this.numTiles = 4
  /\ this.offsetWidth = 700
  /\ this.offsetHeight = 500

IllFormed(resolutions) ==
  \/ Len(resolutions) = 0
  \/ \E i \in 1 .. Len(resolutions), j \in 1 .. Len(resolutions) :
       resolutions[i][1] * resolutions[j][2] # resolutions[j][1] * resolutions[i][2]
  \/ \E i \in 1 .. Len(resolutions) - 1 :
       resolutions[i][1] >= resolutions[i + 1][1]

(***************************************************************************)
(* C22: construction with an empty catalog, a catalog of mixed aspect      *)
(* ratios or a catalog that is not sorted ascending fails: the constructor *)
(* throws and no controller with such a catalog operates.                  *)
(***************************************************************************)
C22_IllFormedCatalogFails ==
  IllFormed(this.resolutions) => "thrown" \in DOMAIN this

(***************************************************************************)
(* C23: 's' pressed while scanning is on and a tile is selected stops the  *)
(* scan and returns to the grid: afterwards scanning is off and no tile is *)
(* selected.                                                               *)
(***************************************************************************)
C23_ScanKeyStopsScan ==
  [][(/\ ev'.type = "keypress"
      /\ ev'.arg = "s"
      /\ this.scanning
      /\ this.selected # null) =>
       /\ ~ this'.scanning
       /\ this'.selected = null]_vars

\* 's' was pressed during a scan that had moved past tile 0.
C23_Witness ==
  /\ ev.type = "keypress"
  /\ ev.arg = "s"
  /\ ev.scanning
  /\ ev.selected # null
  /\ ev.selected # 0
  /\ ~ this.scanning
  /\ this.selected = null

\* The positions in a cell of the container buildImage_ created last.
LatestSlots(cell) == {k \in 1 .. Len(cell) : cell[k].latest}

(***************************************************************************)
(* C24: whatever the order of 'load' events and image requests, in every   *)
(* cell the most recently requested image container is present, is the     *)
(* last child of the cell (and carries the src the controller compares     *)
(* against), and once it has loaded it is the only container of the cell.  *)
(***************************************************************************)
C24_LatestSlotIsLast ==
  \A i \in 0 .. this.numTiles - 1 :
    LET cell == this.cells[i]
    IN  /\ Len(cell) >= 1
        /\ LatestSlots(cell) = {Len(cell)}
        /\ cell[Len(cell)].src = this.src[i]
        /\ cell[Len(cell)].loaded => Len(cell) = 1

\* The image of an older container loaded after a later image had been
\* requested for the cell: the later container is kept, still loading.
C24_Witness ==
  /\ ev.type = "load"
  /\ Len(this.cells[ev.arg[1]]) >= 2
  /\ this.cells[ev.arg[1]][1].loaded
  /\ ~ this.cells[ev.arg[1]][Len(this.cells[ev.arg[1]])].loaded

(***************************************************************************)
(* C25: in every reachable state with scanning off, every tile other than  *)
(* the selected one has its most recent image request at the current grid  *)
(* resolution.                                                             *)
(***************************************************************************)
C25_IdleTilesAtGridResolution ==
  ~ this.scanning =>
    \A i \in Tiles : i # this.selected => this.src[i] = GridUrl(i)

(***************************************************************************)
(* C26: in every reachable state in which a tile is selected, that tile's  *)
(* most recent image request is at the cached full-screen resolution.      *)
(***************************************************************************)
C26_SelectedAtFullScreenResolution ==
  this.selected # null => this.src[this.selected] = FullScreenUrl(this.selected)

(***************************************************************************)
(* C27: with at least two tiles, a running scan that receives only timer   *)
(* ticks, and keeps receiving them, has a tile selected at every step,     *)
(* moves the selection in circular index order, and selects every tile     *)
(* infinitely often.                                                       *)
(***************************************************************************)
C27_ScanVisitsEveryTile ==
  /\ [](this.selected # null /\ this.scanning)
  /\ [][this'.selected = (this.selected + 1) % this.numTiles]_vars
  /\ \A i \in 0 .. MaxKeyTiles :
       []<>(i >= this.numTiles \/ this.selected = i)

\* A tick wrapped the running scan around from the last tile to tile 0.
C27_Witness ==
  /\ ev.type = "timer"
  /\ ev.scanning
  /\ this.scanning
  /\ this.numTiles >= 3
  /\ ev.selected = this.numTiles - 1
  /\ this.selected = 0

(***************************************************************************)
(* C28: for every non-empty catalog and every target width and height the  *)
(* two revisions of findMinimumResolution_ return the same resolution.     *)
(***************************************************************************)
C28_RevisionsAgree ==
  this.first = this.second

\* No entry of a catalog of several entries reaches the target: the first
\* revision stops at the last entry, the second falls back to it.
C28_Witness ==
  /\ ev.type = "find"
  /\ Len(this.resolutions) >= 2
  /\ \A i \in 1 .. Len(this.resolutions) :
       /\ this.resolutions[i][1] < this.tileWidth
       /\ this.resolutions[i][2] < this.tileHeight
  /\ this.first = [imgWidthPx |-> this.resolutions[Len(this.resolutions)][1],
                   imgHeightPx |-> this.resolutions[Len(this.resolutions)][2]]

=============================================================================
